---- MODULE Spec2Model ----
(***************************************************************************)
(* scripts/extract-website-schema.py as a state machine.                   *)
(*                                                                         *)
(* The script reads prisma/schema-full-original.txt, drops every model     *)
(* block whose name is in exclude_models (first loop), scrubs the RPG      *)
(* relation lines out of the CritUser model and adds a note before its     *)
(* closing brace (second loop), writes prisma/schema.prisma and prints     *)
(* two status lines.                                                       *)
(*                                                                         *)
(* A line is a string; Chars gives its characters, and every test the      *)
(* script makes on a line (the regular expression, count, startswith,      *)
(* strip, the substring test) is computed on those characters.  A file's   *)
(* text is the sequence of its newline characters and of the maximal       *)
(* non-empty newline-free pieces between them.                             *)
(***************************************************************************)
EXTENDS Integers, Sequences, FiniteSets, TLC

\* Longest input document, in lines.
MaxLen == 4

\* Number of consecutive runs of the script (SpecRerun feeds a run's output
\* file to the next run as its input file).
MaxRuns == 2

\* Longest first input document of SpecRerun, in lines.
MaxLenRerun == 3

\* The two comment lines the scrubber inserts (after a blank line).
Note1 == "  // NOTE: RPG-related relations (rpgPlayer, ownedWorlds, worldWiki) are now in"
Note2 == "  // the separate Core Concepts database and accessed via the unified facade"

\* A rewording of the second comment line that names a model.
Note2Reworded == "  // the separate RpgWorld database and accessed via the unified facade"

\* The lines the input documents are made of.
Alphabet ==
    { "", "}", "x {", "model A {", "model RpgWorld {", "model RpgPlayer { }",
      "model CritUser {", "model CritUserX {", "  ownedWorlds RpgWorld[]" }

\* The characters of each line.
Chars ==
    "" :>
        <<>> @@
    "}" :>
        <<"}">> @@
    "x {" :>
        <<"x"," ","{">> @@
    "model A {" :>
        <<"m","o","d","e","l"," ","A"," ","{">> @@
    "model RpgWorld {" :>
        <<"m","o","d","e","l"," ","R","p","g","W","o","r","l","d"," ","{">> @@
    "model RpgPlayer { }" :>
        <<"m","o","d","e","l"," ","R","p","g","P","l","a","y","e","r"," ","{"," ","}">> @@
    "model CritUser {" :>
        <<"m","o","d","e","l"," ","C","r","i","t","U","s","e","r"," ","{">> @@
    "model CritUserX {" :>
        <<"m","o","d","e","l"," ","C","r","i","t","U","s","e","r","X"," ","{">> @@
    "  ownedWorlds RpgWorld[]" :>
        <<" "," ","o","w","n","e","d","W","o","r","l","d","s"," ","R","p","g","W","o","r","l","d","[","]">> @@
    "  // NOTE: RPG-related relations (rpgPlayer, ownedWorlds, worldWiki) are now in" :>
        <<" "," ","/","/"," ","N","O","T","E",":"," ","R","P","G","-","r","e","l","a","t","e","d"," ","r","e","l","a","t","i","o","n","s"," ","(","r","p","g","P","l","a","y","e","r",","," ","o","w","n","e","d","W","o","r","l","d","s",","," ","w","o","r","l","d","W","i","k","i",")"," ","a","r","e"," ","n","o","w"," ","i","n">> @@
    "  // the separate Core Concepts database and accessed via the unified facade" :>
        <<" "," ","/","/"," ","t","h","e"," ","s","e","p","a","r","a","t","e"," ","C","o","r","e"," ","C","o","n","c","e","p","t","s"," ","d","a","t","a","b","a","s","e"," ","a","n","d"," ","a","c","c","e","s","s","e","d"," ","v","i","a"," ","t","h","e"," ","u","n","i","f","i","e","d"," ","f","a","c","a","d","e">> @@
    "  // the separate RpgWorld database and accessed via the unified facade" :>
        <<" "," ","/","/"," ","t","h","e"," ","s","e","p","a","r","a","t","e"," ","R","p","g","W","o","r","l","d"," ","d","a","t","a","b","a","s","e"," ","a","n","d"," ","a","c","c","e","s","s","e","d"," ","v","i","a"," ","t","h","e"," ","u","n","i","f","i","e","d"," ","f","a","c","a","d","e">>

\* The newline character.
NL == "\n"

exclude_models ==
    { <<"R","p","g","P","l","a","y","e","r">>,
      <<"R","p","g","S","e","s","s","i","o","n">>,
      <<"R","p","g","H","i","s","t","o","r","y">>,
      <<"R","p","g","T","i","m","e","l","i","n","e">>,
      <<"R","p","g","A","l","t","H","i","s","t","o","r","y">>,
      <<"R","p","g","A","s","s","e","t">>,
      <<"R","p","g","T","i","l","e">>,
      <<"R","p","g","E","x","p","a","n","s","i","o","n">>,
      <<"R","p","g","E","x","p","a","n","s","i","o","n","A","c","c","e","s","s">>,
      <<"R","p","g","S","h","e","e","t">>,
      <<"R","p","g","B","o","a","r","d">>,
      <<"R","p","g","T","h","i","n","g">>,
      <<"R","p","g","C","r","e","a","t","u","r","e">>,
      <<"R","p","g","W","o","r","l","d">>,
      <<"R","p","g","W","o","r","l","d","W","i","k","i">>,
      <<"R","p","g","W","o","r","l","d","W","i","k","i","R","e","v","i","s","i","o","n">>,
      <<"R","p","g","C","a","m","p","a","i","g","n">>,
      <<"C","a","m","p","a","i","g","n","M","e","m","b","e","r">>,
      <<"R","p","g","T","y","p","e">>,
      <<"R","p","g","T","a","b","l","e">>,
      <<"R","p","g","C","a","r","d">>,
      <<"R","p","g","D","e","c","k">>,
      <<"R","p","g","R","u","l","e">>,
      <<"R","p","g","E","v","e","n","t">>,
      <<"R","p","g","G","o","a","l">>,
      <<"R","p","g","M","o","d","e">>,
      <<"R","p","g","S","y","s","t","e","m">>,
      <<"R","p","g","A","c","t","i","v","i","t","y">>,
      <<"R","p","g","S","u","b","S","y","s","t","e","m">>,
      <<"R","p","g","A","t","t","r","i","b","u","t","e">>,
      <<"R","p","g","L","o","c","a","t","i","o","n">>,
      <<"R","p","g","B","o","o","k">>,
      <<"R","p","g","V","o","x","e","l">>,
      <<"F","o","u","n","d","r","y","L","i","c","e","n","s","e">>,
      <<"F","o","u","n","d","r","y","I","n","s","t","a","n","c","e">>,
      <<"F","o","u","n","d","r","y","W","o","r","l","d","S","n","a","p","s","h","o","t">> }

forbidden ==
    << <<"o","w","n","e","d","W","o","r","l","d","s">>,
       <<"r","p","g","P","l","a","y","e","r">>,
       <<"R","p","g","W","o","r","l","d">>,
       <<"R","p","g","P","l","a","y","e","r">>,
       <<"a","u","t","h","o","r","e","d","W","o","r","l","d","W","i","k","i","P","a","g","e","s">>,
       <<"l","a","s","t","E","d","i","t","e","d","W","o","r","l","d","W","i","k","i","P","a","g","e","s">>,
       <<"w","o","r","l","d","W","i","k","i","R","e","v","i","s","i","o","n","s">>,
       <<"R","p","g","W","o","r","l","d","W","i","k","i">> >>

(***************************************************************************)
(* Characters and strings.                                                 *)
(***************************************************************************)

\* What str.strip() removes and what \s matches: the characters for which
\* str.isspace() holds.  A character without a spelling in a TLA+ string is
\* written by its code point, "U+000B" for the vertical tab.
Whitespace ==
    { "\t", "\n", "U+000B", "\f", "\r", "U+001C", "U+001D", "U+001E", "U+001F",
      " ", "U+0085", "U+00A0", "U+1680", "U+2000", "U+2001", "U+2002", "U+2003",
      "U+2004", "U+2005", "U+2006", "U+2007", "U+2008", "U+2009", "U+200A",
      "U+2028", "U+2029", "U+202F", "U+205F", "U+3000" }

\* What \w matches among the characters of Chars (beyond ASCII, \w also
\* matches the letters and digits of other scripts, which no line holds).
WordChars ==
    { "a","b","c","d","e","f","g","h","i","j","k","l","m",
      "n","o","p","q","r","s","t","u","v","w","x","y","z",
      "A","B","C","D","E","F","G","H","I","J","K","L","M",
      "N","O","P","Q","R","S","T","U","V","W","X","Y","Z",
      "0","1","2","3","4","5","6","7","8","9","_" }

\* The first index from p on at which c leaves the class S (Len(c)+1 if none).
SkipWhile(c, p, S) ==
    CHOOSE k \in p..(Len(c) + 1) :
        /\ (k = Len(c) + 1 \/ c[k] \notin S)
        /\ \A m \in p..(k - 1) : c[m] \in S

\* str.startswith on character sequences.
startswith(c, pre) ==
    /\ Len(pre) <= Len(c)
    /\ SubSeq(c, 1, Len(pre)) = pre

\* The substring test `frag in c`.
contains(c, frag) ==
    \E k \in 0..(Len(c) - Len(frag)) : SubSeq(c, k + 1, k + Len(frag)) = frag

\* str.count for a single character.
count(c, ch) == Cardinality({ k \in DOMAIN c : c[k] = ch })

\* str.strip().
strip(c) ==
    LET first == SkipWhile(c, 1, Whitespace)
        keep  == { k \in DOMAIN c : c[k] \notin Whitespace }
        last  == IF keep = {} THEN 0 ELSE CHOOSE k \in keep : \A m \in keep : m <= k
    IN  SubSeq(c, first, last)

\* No match of the regular expression (group(1) is never empty on a match).
None == <<>>

\* re.match(r'^model\s+(\w+)\s*{', line): group(1) of the match, or None.
model_match(line) ==
    LET c  == Chars[line]
        p1 == 6
        p2 == SkipWhile(c, p1, Whitespace)
        p3 == SkipWhile(c, p2, WordChars)
        p4 == SkipWhile(c, p3, Whitespace)
    IN  IF /\ startswith(c, <<"m","o","d","e","l">>)
           /\ p2 > p1
           /\ p3 > p2
           /\ p4 <= Len(c)
           /\ c[p4] = "{"
        THEN SubSeq(c, p2, p3 - 1)
        ELSE None

\* line.count('{') and line.count('}').
opens(line)  == count(Chars[line], "{")
closes(line) == count(Chars[line], "}")

\* line.startswith('model CritUser')
starts_crit_user(line) ==
    startswith(Chars[line],
               <<"m","o","d","e","l"," ","C","r","i","t","U","s","e","r">>)

\* line.strip() == '}'
is_closing(line) == strip(Chars[line]) = <<"}">>

\* any(x in line for x in [...]), the scrubber's test of a relation line.
any_forbidden(line) ==
    \E n \in DOMAIN forbidden : contains(Chars[line], forbidden[n])

\* The note as a single comment line.
note_lines_one_comment == << "", Note1 >>

\* The note with its second comment line reworded.
note_lines_reworded == << "", Note1, Note2Reworded >>

\* The three lines appended before CritUser's closing brace.
note_lines == << "", Note1, Note2 >>

\* The piece of text a line contributes to a concatenation.
Piece(s) == IF s = "" THEN <<>> ELSE <<s>>

RECURSIVE Join(_)
\* '\n'.join(ls)
Join(ls) ==
    IF ls = <<>> THEN <<>>
    ELSE IF Len(ls) = 1 THEN Piece(ls[1])
    ELSE Piece(ls[1]) \o <<NL>> \o Join(Tail(ls))

\* The line between two newlines of a text.
Whole(p) == IF p = <<>> THEN "" ELSE p[1]

RECURSIVE Split(_)
\* text.split('\n')
Split(text) ==
    IF \A k \in DOMAIN text : text[k] # NL
    THEN << Whole(text) >>
    ELSE LET k == CHOOSE n \in DOMAIN text :
                      text[n] = NL /\ \A m \in 1..(n - 1) : text[m] # NL
         IN  << Whole(SubSeq(text, 1, k - 1)) >>
                 \o Split(SubSeq(text, k + 1, Len(text)))

(***************************************************************************)
(* The two loops, one line at a time.                                      *)
(***************************************************************************)

\* The block filter with the skip-mode test ahead of the declaration test.
filter_line_skip_first(skip, model, braces, line) ==
    LET m == model_match(line)
        b == braces + opens(line) - closes(line)
    IN  IF skip
        THEN [ skip_model    |-> ~(b <= 0),
               current_model |-> IF b <= 0 THEN None ELSE model,
               brace_count   |-> b,
               emit          |-> FALSE ]
        ELSE IF m # None
        THEN [ skip_model    |-> m \in exclude_models,
               current_model |-> m,
               brace_count   |-> 1,
               emit          |-> m \notin exclude_models ]
        ELSE [ skip_model    |-> skip,
               current_model |-> model,
               brace_count   |-> braces,
               emit          |-> TRUE ]

\* One iteration of the block filter: the loop's state after `line`, and
\* whether the line was appended to output_lines.
filter_line(skip, model, braces, line) ==
    LET m == model_match(line)
        b == braces + opens(line) - closes(line)
    IN  IF m # None
        THEN [ skip_model    |-> m \in exclude_models,
               current_model |-> m,
               brace_count   |-> 1,
               emit          |-> m \notin exclude_models ]
        ELSE IF skip
        THEN [ skip_model    |-> ~(b <= 0),
               current_model |-> IF b <= 0 THEN None ELSE model,
               brace_count   |-> b,
               emit          |-> FALSE ]
        ELSE [ skip_model    |-> skip,
               current_model |-> model,
               brace_count   |-> braces,
               emit          |-> TRUE ]

\* The scrubber without the `continue` of line 84: a relation line is found
\* and appended all the same.
scrub_line_keeps_relations(in_cu, line) ==
    IF starts_crit_user(line)
    THEN [ in_crit_user |-> TRUE,
           lines        |-> << line >>,
           own          |-> << TRUE >> ]
    ELSE IF in_cu /\ is_closing(line)
    THEN [ in_crit_user |-> FALSE,
           lines        |-> note_lines \o << line >>,
           own          |-> [ k \in DOMAIN note_lines |-> FALSE ] \o << TRUE >> ]
    ELSE [ in_crit_user |-> in_cu,
           lines        |-> << line >>,
           own          |-> << TRUE >> ]

\* The scrubber without the `continue` of line 79: the closing line falls
\* through to the append of line 86.
scrub_line_closing_twice(in_cu, line) ==
    IF starts_crit_user(line)
    THEN [ in_crit_user |-> TRUE,
           lines        |-> << line >>,
           own          |-> << TRUE >> ]
    ELSE IF in_cu /\ is_closing(line)
    THEN [ in_crit_user |-> FALSE,
           lines        |-> note_lines \o << line, line >>,
           own          |-> [ k \in DOMAIN note_lines |-> FALSE ] \o << TRUE, TRUE >> ]
    ELSE IF in_cu /\ any_forbidden(line)
    THEN [ in_crit_user |-> in_cu,
           lines        |-> << >>,
           own          |-> << >> ]
    ELSE [ in_crit_user |-> in_cu,
           lines        |-> << line >>,
           own          |-> << TRUE >> ]

\* One iteration of the scrubber: the flag after `line`, the lines appended to
\* final_lines, and for each of them whether it is `line` itself.
scrub_line(in_cu, line) ==
    IF starts_crit_user(line)
    THEN [ in_crit_user |-> TRUE,
           lines        |-> << line >>,
           own          |-> << TRUE >> ]
    ELSE IF in_cu /\ is_closing(line)
    THEN [ in_crit_user |-> FALSE,
           lines        |-> note_lines \o << line >>,
           own          |-> [ k \in DOMAIN note_lines |-> FALSE ] \o << TRUE >> ]
    ELSE IF in_cu /\ any_forbidden(line)
    THEN [ in_crit_user |-> in_cu,
           lines        |-> << >>,
           own          |-> << >> ]
    ELSE [ in_crit_user |-> in_cu,
           lines        |-> << line >>,
           own          |-> << TRUE >> ]

(***************************************************************************)
(* State.                                                                  *)
(***************************************************************************)

VARIABLES
    pc,             \* where the script is: "read", "filter", "scrub", "write",
                    \* "report", "done", or "aborted" after an exception
    run,            \* which run of the script this is
    in_file,        \* prisma/schema-full-original.txt: [err, text]
    out_file,       \* prisma/schema.prisma: [exists, text]
    console,        \* what has been printed
    lines,          \* content.split('\n')
    i,              \* the filter loop's position in lines (from 1)
    output_lines,
    output_src,     \* for each line of output_lines, its index in lines
    skip_model,
    current_model,
    brace_count,
    j,              \* the scrubber loop's position in output_lines (from 1)
    final_lines,
    final_src,      \* for each line of final_lines, its index in lines,
                    \* 0 for a line the scrubber added
    in_crit_user

vars == << pc, run, in_file, out_file, console, lines, i, output_lines,
           output_src, skip_model, current_model, brace_count, j,
           final_lines, final_src, in_crit_user >>

\* The documents of at most n lines.
Docs(n) == UNION { [ 1..k -> Alphabet ] : k \in 1..n }

\* The ways open(...)/read() of the input file raises.
ReadErrors == { "missing", "unreadable", "undecodable" }

\* The output file before the first run: absent, or left by an earlier build.
NoFile  == [ exists |-> FALSE, text |-> << >> ]
OldFile == [ exists |-> TRUE,  text |-> << "generator client {", NL, "}" >> ]

\* The interpreter's state when the script starts.
Start ==
    /\ pc = "read"
    /\ console = << >>
    /\ lines = << >>
    /\ i = 1
    /\ output_lines = << >>
    /\ output_src = << >>
    /\ skip_model = FALSE
    /\ current_model = None
    /\ brace_count = 0
    /\ j = 1
    /\ final_lines = << >>
    /\ final_src = << >>
    /\ in_crit_user = FALSE

InitWith(n) ==
    /\ Start
    /\ run = 1
    /\ in_file \in { [ err |-> e, text |-> << >> ] : e \in ReadErrors }
                   \cup { [ err |-> "none", text |-> Join(d) ] : d \in Docs(n) }
    /\ out_file \in { NoFile, OldFile }

Init == InitWith(MaxLen)

InitRerun == InitWith(MaxLenRerun)

(***************************************************************************)
(* Steps.                                                                  *)
(***************************************************************************)

\* Lines 9-13: the file is read and split.
ReadOk ==
    /\ pc = "read"
    /\ in_file.err = "none"
    /\ lines' = Split(in_file.text)
    /\ pc' = "filter"
    /\ UNCHANGED << run, in_file, out_file, console, i, output_lines, output_src,
                    skip_model, current_model, brace_count, j, final_lines,
                    final_src, in_crit_user >>

\* The output file opened for writing ahead of the read: the failed run
\* leaves it empty.
ReadFailTruncates ==
    /\ pc = "read"
    /\ in_file.err # "none"
    /\ pc' = "aborted"
    /\ out_file' = [ exists |-> TRUE, text |-> << >> ]
    /\ UNCHANGED << run, in_file, console, lines, i, output_lines,
                    output_src, skip_model, current_model, brace_count, j,
                    final_lines, final_src, in_crit_user >>

\* Lines 9-10: open() or read() raises and the script ends with a traceback.
ReadFail ==
    /\ pc = "read"
    /\ in_file.err # "none"
    /\ pc' = "aborted"
    /\ UNCHANGED << run, in_file, out_file, console, lines, i, output_lines,
                    output_src, skip_model, current_model, brace_count, j,
                    final_lines, final_src, in_crit_user >>

\* Lines 32-60: one iteration of the block filter.
FilterStep ==
    /\ pc = "filter"
    /\ i <= Len(lines)
    /\ LET r == filter_line(skip_model, current_model, brace_count, lines[i])
       IN  /\ skip_model' = r.skip_model
           /\ current_model' = r.current_model
           /\ brace_count' = r.brace_count
           /\ output_lines' = IF r.emit THEN Append(output_lines, lines[i])
                                        ELSE output_lines
           /\ output_src' = IF r.emit THEN Append(output_src, i) ELSE output_src
    /\ i' = i + 1
    /\ UNCHANGED << pc, run, in_file, out_file, console, lines, j, final_lines,
                    final_src, in_crit_user >>

\* Lines 32, 63-64: the filter loop is exhausted, the scrubber starts.
FilterExit ==
    /\ pc = "filter"
    /\ i > Len(lines)
    /\ pc' = "scrub"
    /\ final_lines' = << >>
    /\ final_src' = << >>
    /\ in_crit_user' = FALSE
    /\ j' = 1
    /\ UNCHANGED << run, in_file, out_file, console, lines, i, output_lines,
                    output_src, skip_model, current_model, brace_count >>

\* Lines 65-86: one iteration of the scrubber.
ScrubStep ==
    /\ pc = "scrub"
    /\ j <= Len(output_lines)
    /\ LET r == scrub_line(in_crit_user, output_lines[j])
       IN  /\ in_crit_user' = r.in_crit_user
           /\ final_lines' = final_lines \o r.lines
           /\ final_src' = final_src \o
                  [ k \in DOMAIN r.own |-> IF r.own[k] THEN output_src[j] ELSE 0 ]
    /\ j' = j + 1
    /\ UNCHANGED << pc, run, in_file, out_file, console, lines, i, output_lines,
                    output_src, skip_model, current_model, brace_count >>

\* Line 65: the scrubber loop is exhausted.
ScrubExit ==
    /\ pc = "scrub"
    /\ j > Len(output_lines)
    /\ pc' = "write"
    /\ UNCHANGED << run, in_file, out_file, console, lines, i, output_lines,
                    output_src, skip_model, current_model, brace_count, j,
                    final_lines, final_src, in_crit_user >>

\* Lines 89-90: the output file is opened for writing and written.
WriteFile ==
    /\ pc = "write"
    /\ out_file' = [ exists |-> TRUE, text |-> Join(final_lines) ]
    /\ pc' = "report"
    /\ UNCHANGED << run, in_file, console, lines, i, output_lines, output_src,
                    skip_model, current_model, brace_count, j, final_lines,
                    final_src, in_crit_user >>

\* The success message of line 92.
SuccessMessage == "Website schema extracted successfully"

\* The status lines with the count taken before the scrubber ran.
ReportFilterCount ==
    /\ pc = "report"
    /\ console' = console \o << << SuccessMessage >>,
                                << "Total lines: ", Len(output_lines) >> >>
    /\ pc' = "done"
    /\ UNCHANGED << run, in_file, out_file, lines, i, output_lines, output_src,
                    skip_model, current_model, brace_count, j, final_lines,
                    final_src, in_crit_user >>

\* Lines 92-93: the two status lines.
Report ==
    /\ pc = "report"
    /\ console' = console \o << << SuccessMessage >>,
                                << "Total lines: ", Len(final_lines) >> >>
    /\ pc' = "done"
    /\ UNCHANGED << run, in_file, out_file, lines, i, output_lines, output_src,
                    skip_model, current_model, brace_count, j, final_lines,
                    final_src, in_crit_user >>

\* The script is run again, on the file it wrote.
Rerun ==
    /\ pc = "done"
    /\ run < MaxRuns
    /\ run' = run + 1
    /\ in_file' = [ err |-> "none", text |-> out_file.text ]
    /\ pc' = "read"
    /\ console' = << >>
    /\ lines' = << >>
    /\ i' = 1
    /\ output_lines' = << >>
    /\ output_src' = << >>
    /\ skip_model' = FALSE
    /\ current_model' = None
    /\ brace_count' = 0
    /\ j' = 1
    /\ final_lines' = << >>
    /\ final_src' = << >>
    /\ in_crit_user' = FALSE
    /\ UNCHANGED out_file

Next ==
    \/ ReadOk
    \/ ReadFail
    \/ FilterStep
    \/ FilterExit
    \/ ScrubStep
    \/ ScrubExit
    \/ WriteFile
    \/ Report

Spec == Init /\ [][Next]_vars

NextRerun == Next \/ Rerun

SpecRerun == InitRerun /\ [][NextRerun]_vars

(***************************************************************************)
(* What the properties speak of.                                           *)
(***************************************************************************)

Range(f) == { f[k] : k \in DOMAIN f }

\* The name of the model the scrubber is written for.
TargetName == <<"C","r","i","t","U","s","e","r">>

RECURSIVE Depth(_, _, _)
\* Opening minus closing braces on lines k..m of ls.
Depth(ls, k, m) ==
    IF m < k THEN 0
    ELSE Depth(ls, k, m - 1) + opens(ls[m]) - closes(ls[m])

\* The closing line of the block declared on line k of ls: the first line
\* from k on at which the brace count is back at zero; 0 if there is none.
BlockEnd(ls, k) ==
    LET ends == { m \in k..Len(ls) : Depth(ls, k, m) <= 0 }
    IN  IF ends = {} THEN 0 ELSE CHOOSE m \in ends : \A n \in ends : m <= n

\* The declarations of ls whose block is closed, with a name that satisfies P.
Blocks(ls, P(_)) ==
    { k \in DOMAIN ls : /\ model_match(ls[k]) # None
                        /\ P(model_match(ls[k]))
                        /\ BlockEnd(ls, k) # 0 }

IsExcluded(n) == n \in exclude_models
IsTarget(n)   == n = TargetName
IsOther(n)    == n \notin exclude_models /\ n # TargetName

\* Position q of ls lies after a line beginning with `model CritUser` and no
\* line whose trimmed text is `}` lies between the two: the scrubber is
\* inside CritUser when it reaches q.
InTarget(ls, q) ==
    \E p \in 1..(q - 1) :
        /\ starts_crit_user(ls[p])
        /\ \A r \in (p + 1)..(q - 1) : ~is_closing(ls[r])

\* The positions of final_lines holding a line the scrubber added.
Inserted == { p \in DOMAIN final_src : final_src[p] = 0 }

\* The input lines that reached the final output.
Kept == Range(final_src) \ {0}

\* The count on the second status line.
Reported == console[2][2]

(***************************************************************************)
(* Properties.                                                             *)
(***************************************************************************)

\* C1: when the run is done, no line of a closed block with an excluded name,
\* declaration line through closing line, is among the lines written.
C1_ExcludedBlocksAbsent ==
    pc = "done" =>
        \A k \in Blocks(lines, IsExcluded) :
            \A m \in k..BlockEnd(lines, k) : m \notin Kept

\* C2: when the run is done, every closed block whose name is neither excluded
\* nor CritUser stands in the final output as one run of consecutive lines,
\* each the input line unchanged, and two such blocks stand in input order.
C2_OtherBlocksIntact ==
    pc = "done" =>
        /\ \A k \in Blocks(lines, IsOther) :
               \E p \in DOMAIN final_src :
                   \A d \in 0..(BlockEnd(lines, k) - k) :
                       /\ p + d <= Len(final_src)
                       /\ final_src[p + d] = k + d
                       /\ final_lines[p + d] = lines[k + d]
        /\ \A k1, k2 \in Blocks(lines, IsOther) :
               \A p1, p2 \in DOMAIN final_src :
                   (k1 < k2 /\ final_src[p1] = k1 /\ final_src[p2] = k2) => p1 < p2

\* C3 as claimed: when the run is done, no line of the CritUser block of the
\* final output, declaration line through closing line and the added lines
\* included, contains a forbidden fragment.
C3_NoFragmentInTargetBlock ==
    pc = "done" =>
        \A p \in Blocks(final_lines, IsTarget) :
            \A q \in p..BlockEnd(final_lines, p) : ~any_forbidden(final_lines[q])

\* C3 amended: at every moment, a line of final_lines that was kept from the
\* input while the scrubber was inside CritUser, and that does not itself
\* begin with `model CritUser`, contains no forbidden fragment.
C3_KeptTargetLinesClean ==
    \A q \in DOMAIN final_lines :
        ( /\ final_src[q] # 0
          /\ InTarget(final_lines, q)
          /\ ~starts_crit_user(final_lines[q]) )
        => \A n \in DOMAIN forbidden : ~contains(Chars[final_lines[q]], forbidden[n])

\* C3 witness: a finished run that removed a relation line from CritUser and
\* kept another line of it.
C3_Witness ==
    /\ pc = "done"
    /\ \E k \in DOMAIN lines :
           /\ any_forbidden(lines[k])
           /\ InTarget(lines, k)
           /\ k \notin Kept
    /\ \E q \in DOMAIN final_lines :
           /\ final_src[q] # 0
           /\ InTarget(final_lines, q)
           /\ ~is_closing(final_lines[q])
           /\ ~starts_crit_user(final_lines[q])

\* C4 as claimed: when the run is done on an input that holds the CritUser
\* block, exactly two lines were added, a blank line and a comment line that
\* stand directly before a closing line.
C4_TwoLinesOnce ==
    pc = "done" =>
        ( Blocks(lines, IsTarget) # {} =>
            /\ Cardinality(Inserted) = 2
            /\ \E p \in Inserted :
                   /\ Inserted = { p, p + 1 }
                   /\ final_lines[p] = ""
                   /\ p + 2 <= Len(final_lines)
                   /\ is_closing(final_lines[p + 2]) )

\* The closing lines the scrubber met inside CritUser.
TargetClosings ==
    { q \in DOMAIN final_lines : /\ final_src[q] # 0
                                 /\ is_closing(final_lines[q])
                                 /\ InTarget(final_lines, q) }

\* C4 amended: at every moment, each closing line met inside CritUser has
\* directly before it three added lines, a blank line and the two comment
\* lines, and every added line is one of such a group of three.
C4_ThreeLinesPerClosing ==
    /\ \A q \in TargetClosings :
           /\ q >= 4
           /\ << final_lines[q - 3], final_lines[q - 2], final_lines[q - 1] >>
                  = << "", Note1, Note2 >>
           /\ { q - 3, q - 2, q - 1 } \subseteq Inserted
    /\ \A p \in Inserted : \E q \in TargetClosings : p \in (q - 3)..(q - 1)
    /\ Cardinality(Inserted) = 3 * Cardinality(TargetClosings)

\* C4 witness: a finished run that met two such closing lines and added the
\* note twice.
C4_Witness ==
    /\ pc = "done"
    /\ Cardinality(TargetClosings) = 2
    /\ Cardinality(Inserted) = 6

\* C5 as claimed: when a run on the output of an earlier run is done, every
\* line of its input is in its output.
C5_SecondRunRemovesNothing ==
    (pc = "done" /\ run >= 2) => \A k \in DOMAIN lines : k \in Kept

\* C5 amended: when a run on the output of an earlier run is done, the only
\* input lines missing from its output are first comment lines of the note,
\* inside CritUser.
C5_SecondRunRemovesOnlyNote ==
    (pc = "done" /\ run >= 2) =>
        \A k \in DOMAIN lines :
            k \notin Kept => (lines[k] = Note1 /\ InTarget(lines, k))

\* C5 witness: a finished second run that removed the first run's comment
\* line and added the note again.
C5_Witness ==
    /\ pc = "done"
    /\ run = 2
    /\ \E k \in DOMAIN lines : k \notin Kept /\ lines[k] = Note1
    /\ Len(final_lines) = Len(lines) + 2

\* C6: in the block filter, after the declaration line of an excluded block
\* that closes on the same line, skip mode is off; and if the next line does
\* not declare an excluded block, it is emitted.
C6_OneLineBlockLeavesSkipMode ==
    \A k \in DOMAIN lines :
        ( /\ model_match(lines[k]) \in exclude_models
          /\ BlockEnd(lines, k) = k )
        => /\ (pc = "filter" /\ i = k + 1 /\ i <= Len(lines)) => ~skip_model
           /\ ( /\ pc = "scrub"
                /\ k + 1 <= Len(lines)
                /\ model_match(lines[k + 1]) \notin exclude_models )
              => k + 1 \in Range(output_src)

\* C7 as claimed: when the run is done, the count reported is the number of
\* lines the written text splits into.
C7_CountIsSplitCount ==
    pc = "done" => Reported = Len(Split(out_file.text))

\* C7 amended: when the run is done, a reported count of one or more is the
\* number of lines the written text splits into, and a reported count of zero
\* goes with an empty text, which splits into one line.
C7_CountIsSplitCountUnlessZero ==
    pc = "done" =>
        /\ Reported >= 1 => Reported = Len(Split(out_file.text))
        /\ Reported = 0 => (out_file.text = << >> /\ Len(Split(out_file.text)) = 1)
        /\ Reported >= 0

\* C7 witness: a finished run that wrote several lines, an added blank line
\* among them.
C7_Witness ==
    /\ pc = "done"
    /\ Reported >= 4
    /\ Inserted # {}
    /\ Reported = Len(Split(out_file.text))

\* C8: a step taken with an input file that cannot be read ends the run and
\* changes neither the output file nor the console.
C8_FailedReadLeavesOutput ==
    [][ in_file.err # "none" =>
            /\ pc' = "aborted"
            /\ out_file' = out_file
            /\ console' = console ]_vars

\* C8 witness: a run aborted with the earlier output file still in place.
C8_Witness ==
    /\ pc = "aborted"
    /\ in_file.err = "undecodable"
    /\ out_file = OldFile
    /\ console = << >>

\* C9: a filter step on a line that matches the declaration pattern sets the
\* brace count to 1 and skip mode to whether the name is excluded, and emits
\* the line exactly when it is not, whatever the state before.
C9_DeclarationDecides ==
    [][ ( /\ pc = "filter"
          /\ i <= Len(lines)
          /\ model_match(lines[i]) # None )
        => LET excluded == model_match(lines[i]) \in exclude_models
           IN  /\ brace_count' = 1
               /\ skip_model' = excluded
               /\ output_lines' = IF excluded THEN output_lines
                                              ELSE Append(output_lines, lines[i])
      ]_vars

\* C9 witness: the filter has emitted the declaration of a block that is not
\* excluded, met in skip mode directly after the declaration of an excluded one.
C9_Witness ==
    /\ pc = "filter"
    /\ i = 3
    /\ lines[1] = "model RpgWorld {"
    /\ model_match(lines[2]) # None
    /\ model_match(lines[2]) \notin exclude_models
    /\ output_lines = << lines[2] >>
    /\ ~skip_model
    /\ brace_count = 1

\* C10: at every moment, the lines of final_lines that the scrubber did not
\* add are input lines, unchanged, each at most once and in input order.
C10_OutputIsSubsequence ==
    /\ Len(final_src) = Len(final_lines)
    /\ \A p \in DOMAIN final_src :
           final_src[p] # 0 =>
               /\ final_src[p] \in DOMAIN lines
               /\ final_lines[p] = lines[final_src[p]]
    /\ \A p1, p2 \in DOMAIN final_src :
           (p1 < p2 /\ final_src[p1] # 0 /\ final_src[p2] # 0)
               => final_src[p1] < final_src[p2]

\* C10 witness: a finished run that dropped an input line, added the note and
\* kept several input lines.
C10_Witness ==
    /\ pc = "done"
    /\ Cardinality(Kept) >= 3
    /\ Cardinality(Kept) < Len(lines)
    /\ Inserted # {}

====
